---- MODULE Spec2Model ----
(***************************************************************************)
(* graphql-directive-evaluator: traverseAndEvaluateDirectives walks the    *)
(* operations of a parsed GraphQL document against a schema and reports,   *)
(* on the console, every selected field whose definition carries an        *)
(* @authPolicy directive, with the scopes the directive lists.             *)
(*                                                                         *)
(* The recursion of the source (checkSelectionSet -> checkField /          *)
(* checkInlineFragment / checkFragmentSpread -> checkSelectionSet) is an   *)
(* explicit call stack here: one frame per active checkSelectionSet call,  *)
(* one step per selection of the frame's for-loop.                         *)
(***************************************************************************)
EXTENDS Integers, Sequences, FiniteSets, TLC

\* ------------------------------------------------------------------ bounds

\* Frames the engine's call stack holds before it throws RangeError
\* ("Maximum call stack size exceeded").
MaxCallDepth == 6

\* Longest top-level selection set of a generated operation.
MaxSelections == 2

\* ------------------------------------------------------------- AST values

None == "<none>"

NoSelectionSet == [present |-> FALSE, selections |-> <<>>]

SelectionSet(sels) == [present |-> TRUE, selections |-> sels]

Field(name) ==
    [kind |-> "Field", name |-> name, typeCondition |-> None,
     selectionSet |-> NoSelectionSet]

FieldWith(name, sels) ==
    [kind |-> "Field", name |-> name, typeCondition |-> None,
     selectionSet |-> SelectionSet(sels)]

InlineFragment(typeCondition, sels) ==
    [kind |-> "InlineFragment", name |-> None, typeCondition |-> typeCondition,
     selectionSet |-> SelectionSet(sels)]

FragmentSpread(name) ==
    [kind |-> "FragmentSpread", name |-> name, typeCondition |-> None,
     selectionSet |-> NoSelectionSet]

OperationDefinition(operation, name, sels) ==
    [kind |-> "OperationDefinition", operation |-> operation, name |-> name,
     typeCondition |-> None, selectionSet |-> SelectionSet(sels)]

FragmentDefinition(name, typeCondition, sels) ==
    [kind |-> "FragmentDefinition", operation |-> None, name |-> name,
     typeCondition |-> typeCondition, selectionSet |-> SelectionSet(sels)]

\* ------------------------------------------------------------ schema values

Named(name) == [kind |-> "Named", name |-> name]
ListOf(t) == [kind |-> "List", ofType |-> t]
NonNull(t) == [kind |-> "NonNull", ofType |-> t]

StringValue(s) == [kind |-> "StringValue", value |-> s, values |-> <<>>]
IntValue(s) == [kind |-> "IntValue", value |-> s, values |-> <<>>]
ListValue(vals) == [kind |-> "ListValue", value |-> None, values |-> vals]

Argument(name, value) == [name |-> name, value |-> value]

Directive(name, args) == [name |-> name, arguments |-> args]

\* @authPolicy(scopes: [...]) with string literals
AuthPolicy(scopes) ==
    Directive("authPolicy",
        <<Argument("scopes",
            ListValue([i \in 1..Len(scopes) |-> StringValue(scopes[i])]))>>)

FieldDef(type, directives) == [type |-> type, directives |-> directives]

ObjectType(fields) == [kind |-> "object", fields |-> fields]
InterfaceType(fields) == [kind |-> "interface", fields |-> fields]
UnionType == [kind |-> "union", fields |-> <<>>]
ScalarType == [kind |-> "scalar", fields |-> <<>>]
EnumType == [kind |-> "enum", fields |-> <<>>]

\* The demo schema of the repository (SDL).
DemoTypes ==
    [Query |-> ObjectType(
        [publicData |-> FieldDef(Named("String"), <<>>),
         secretData |-> FieldDef(Named("SecretData"),
                                 <<AuthPolicy(<<"read.secretData">>)>>)]),
     SecretData |-> ObjectType(
        [nestedOne |-> FieldDef(Named("String"), <<>>),
         nestedTwo |-> FieldDef(Named("Nested"),
                                <<AuthPolicy(<<"read.nestedTwo">>)>>)]),
     Nested |-> ObjectType(
        [finalString |-> FieldDef(Named("String"), <<>>)]),
     Mutation |-> ObjectType(
        [doSomething |-> FieldDef(Named("DoSomethingResult"),
                                  <<AuthPolicy(<<"manage.updateSomething">>)>>)]),
     DoSomethingResult |-> ObjectType(
        [success |-> FieldDef(Named("Boolean"), <<>>),
         nestedValue |-> FieldDef(Named("String"),
                                  <<AuthPolicy(<<"read.nestedValueResult">>)>>)]),
     String |-> ScalarType,
     Boolean |-> ScalarType]

DemoSchema ==
    [name |-> "demo", types |-> DemoTypes,
     queryType |-> "Query", mutationType |-> "Mutation",
     subscriptionType |-> None]

\* A second schema for the cases the demo schema has none of: an interface, a
\* union, wrapped return types, a subscription root and no mutation root, a
\* field with two @authPolicy directives, directives of another name, and
\* scopes arguments that are not lists of strings.
TestTypes ==
    [Query |-> ObjectType(
        [publicData |-> FieldDef(Named("String"), <<>>),
         secretData |-> FieldDef(Named("SecretData"),
                                 <<AuthPolicy(<<"read.secretData">>)>>),
         node       |-> FieldDef(Named("Node"), <<>>),
         search     |-> FieldDef(Named("SearchResult"), <<>>),
         items      |-> FieldDef(NonNull(ListOf(NonNull(Named("SecretData")))),
                                 <<AuthPolicy(<<"list.items">>)>>),
         multi      |-> FieldDef(Named("String"),
                                 <<AuthPolicy(<<"s1", "s2">>),
                                   Directive("tag", <<>>),
                                   AuthPolicy(<<"s2", "s1">>)>>),
         bad        |-> FieldDef(Named("String"),
                                 <<Directive("authPolicy",
                                     <<Argument("scopes", StringValue("b1"))>>)>>),
         mixed      |-> FieldDef(Named("String"),
                                 <<Directive("authPolicy",
                                     <<Argument("scopes",
                                         ListValue(<<StringValue("m1"),
                                                     IntValue("2"),
                                                     StringValue("m3")>>))>>)>>),
         tagged     |-> FieldDef(Named("SecretData"),
                                 <<Directive("tag",
                                     <<Argument("scopes",
                                         ListValue(<<StringValue("t1")>>))>>)>>),
         late       |-> FieldDef(Named("Role"),
                                 <<Directive("authPolicy",
                                     <<Argument("reason", StringValue("r")),
                                       Argument("scopes",
                                         ListValue(<<StringValue("l1")>>))>>)>>),
         noarg      |-> FieldDef(Named("String"),
                                 <<Directive("authPolicy", <<>>)>>)]),
     SecretData |-> DemoTypes.SecretData,
     Nested |-> DemoTypes.Nested,
     Mutation |-> DemoTypes.Mutation,
     DoSomethingResult |-> DemoTypes.DoSomethingResult,
     Node |-> InterfaceType(
        [id |-> FieldDef(NonNull(Named("String")),
                         <<AuthPolicy(<<"read.node">>)>>)]),
     User |-> ObjectType(
        [id   |-> FieldDef(NonNull(Named("String")), <<>>),
         name |-> FieldDef(Named("String"),
                           <<AuthPolicy(<<"read.user">>)>>)]),
     SearchResult |-> UnionType,
     Subscription |-> ObjectType(
        [changed |-> FieldDef(Named("SecretData"),
                              <<AuthPolicy(<<"sub.changed">>)>>)]),
     Role |-> EnumType,
     String |-> ScalarType,
     Boolean |-> ScalarType]

TestSchema ==
    [name |-> "test", types |-> TestTypes,
     queryType |-> "Query", mutationType |-> None,
     subscriptionType |-> "Subscription"]

\* The schemas an evaluation is given, by name.
Schemas == [demo |-> DemoSchema, test |-> TestSchema]

\* ---------------------------------------------------------------- documents

\* fragment S on SecretData { nestedTwo { finalString } }
FragS ==
    FragmentDefinition("S", "SecretData",
        <<FieldWith("nestedTwo", <<Field("finalString")>>)>>)

\* fragment A on Query { secretData ...A }: spreads itself
FragA ==
    FragmentDefinition("A", "Query",
        <<Field("secretData"), FragmentSpread("A")>>)

\* fragment B on Query { publicData ...C } and
\* fragment C on Query { secretData { ...S } ...B }: spread each other
FragB ==
    FragmentDefinition("B", "Query",
        <<Field("publicData"), FragmentSpread("C")>>)

FragC ==
    FragmentDefinition("C", "Query",
        <<FieldWith("secretData", <<FragmentSpread("S")>>),
          FragmentSpread("B")>>)

\* fragment D on Query { multi bad mixed late noarg }
FragD ==
    FragmentDefinition("D", "Query",
        <<Field("multi"), Field("bad"), Field("mixed"), Field("late"),
          Field("noarg")>>)

\* fragment U on Role { id }: the type condition names an enum
FragU == FragmentDefinition("U", "Role", <<Field("id")>>)

\* The fragment definitions a generated document declares.
FragmentLists ==
    {<<>>, <<FragS, FragD, FragU>>, <<FragC, FragA, FragB, FragS>>}

\* secretData { nestedOne nestedTwo { finalString } }
SelSecretData ==
    FieldWith("secretData",
        <<Field("nestedOne"),
          FieldWith("nestedTwo", <<Field("finalString")>>)>>)

\* node { id ... on User { id name } ... on Nope { id } ... on Role { id }
\*        ... { id } ...U }
SelNode ==
    FieldWith("node",
        <<Field("id"),
          InlineFragment("User", <<Field("id"), Field("name")>>),
          InlineFragment("Nope", <<Field("id")>>),
          InlineFragment("Role", <<Field("id")>>),
          InlineFragment(None, <<Field("id")>>),
          FragmentSpread("U")>>)

\* search { nestedTwo ... on SecretData { nestedTwo } ...S
\*          ... on Node { id ... on SearchResult { id } } }
SelSearch ==
    FieldWith("search",
        <<Field("nestedTwo"),
          InlineFragment("SecretData", <<Field("nestedTwo")>>),
          FragmentSpread("S"),
          InlineFragment("Node",
            <<Field("id"), InlineFragment("SearchResult", <<Field("id")>>)>>)>>)

\* The selections a generated query operation draws its selection set from.
QuerySelections ==
    {Field("publicData"), SelSecretData, SelNode,
     FragmentSpread("S"), FragmentSpread("A"), FragmentSpread("B")}

\* query Misc { tagged { nestedTwo } items { nestedTwo } unknown { nestedTwo }
\*              publicData { nestedTwo } secretData ...D
\*              ... on Mutation { doSomething } search { ... } }
MiscQuery ==
    OperationDefinition("query", "Misc",
        <<FieldWith("tagged", <<Field("nestedTwo")>>),
          FieldWith("items", <<Field("nestedTwo")>>),
          FieldWith("unknown", <<Field("nestedTwo")>>),
          FieldWith("publicData", <<Field("nestedTwo")>>),
          Field("secretData"),
          FragmentSpread("D"),
          InlineFragment("Mutation", <<Field("doSomething")>>),
          SelSearch>>)

\* query Proto { secretData ...toString publicData }
ProtoQuery ==
    OperationDefinition("query", "Proto",
        <<Field("secretData"), FragmentSpread("toString"),
          Field("publicData")>>)

\* mutation ExampleMutation { doSomething { success nestedValue } }
ExampleMutation ==
    OperationDefinition("mutation", "ExampleMutation",
        <<FieldWith("doSomething",
            <<Field("success"), Field("nestedValue")>>)>>)

\* query ExampleQuery { publicData secretData { nestedOne nestedTwo { finalString } } }
ExampleQuery ==
    OperationDefinition("query", "ExampleQuery",
        <<Field("publicData"), SelSecretData>>)

\* subscription OnChange { changed { ...S } }
OnChange ==
    OperationDefinition("subscription", "OnChange",
        <<FieldWith("changed", <<FragmentSpread("S")>>)>>)

SeqsUpTo(S, n) == UNION {[1..k -> S] : k \in 1..n}

GeneratedQueries ==
    {OperationDefinition("query", "Q", sels) :
        sels \in SeqsUpTo(QuerySelections, MaxSelections)}

\* Operations that may follow the first one of a document.
SecondOperations ==
    {<<>>, <<ExampleMutation>>, <<OnChange>>, <<MiscQuery>>, <<ProtoQuery>>}

\* The document of the spec's concrete scenario, and the one index.ts parses
\* (the mutation first).
ExampleDocument == [definitions |-> <<ExampleQuery, ExampleMutation>>]
SourceDocument == [definitions |-> <<ExampleMutation, ExampleQuery>>]

Documents ==
    {[definitions |-> <<q>> \o rest \o frags] :
        q \in GeneratedQueries, rest \in SecondOperations,
        frags \in FragmentLists}
    \cup {[definitions |-> <<>>]}

\* The documents evaluated against the demo schema.
DemoDocuments ==
    {ExampleDocument, SourceDocument,
     [definitions |-> <<OnChange, ExampleQuery>>],
     [definitions |-> <<FragS, OnChange, ExampleMutation>>],
     [definitions |-> <<OperationDefinition("query", "P", <<Field("publicData")>>)>>]}

\* ------------------------------------------------------------------- state

VARIABLES
    schema,       \* the schema argument (its name in Schemas)
    document,     \* the document argument
    fragmentMap,  \* fragment name -> FragmentDefinition, built on entry
    defIdx,       \* position of the final loop over document.definitions
    stack,        \* active checkSelectionSet calls, innermost last
    log,          \* console output of evaluateAuthDirective
    pc,           \* "build", "loop", "returned" or "thrown"
    error,        \* the error thrown, when pc = "thrown"
    run,          \* "first", or how the document now evaluated was rewritten
    first         \* outcome of the first evaluation, kept for comparison

vars == <<schema, document, fragmentMap, defIdx, stack, log, pc, error, run, first>>

theSchema == Schemas[schema]

\* ------------------------------------------------------------ type helpers

getType(s, typeName) ==
    IF typeName \in DOMAIN s.types THEN typeName ELSE None

isObjectType(s, t) == t \in DOMAIN s.types /\ s.types[t].kind = "object"
isInterfaceType(s, t) == t \in DOMAIN s.types /\ s.types[t].kind = "interface"
isUnionType(s, t) == t \in DOMAIN s.types /\ s.types[t].kind = "union"

isCompositeType(s, t) ==
    isObjectType(s, t) \/ isInterfaceType(s, t) \/ isUnionType(s, t)

\* checkField's fields: parentType.getFields() of an object or an interface;
\* a union has none (<<>> stands for undefined)
getFields(s, parentType) ==
    IF isObjectType(s, parentType) THEN s.types[parentType].fields
    ELSE IF isInterfaceType(s, parentType) THEN s.types[parentType].fields
    ELSE <<>>

RECURSIVE getNamedType(_)
getNamedType(type) ==
    IF type.kind \in {"List", "NonNull"} THEN getNamedType(type.ofType)
    ELSE type.name

\* -------------------------------------------------- evaluateAuthDirective

EvalEntry(fieldName, typeName) ==
    [kind |-> "eval", fieldName |-> fieldName, typeName |-> typeName,
     scopes |-> <<>>]

ScopesEntry(scopes) ==
    [kind |-> "scopes", fieldName |-> None, typeName |-> None,
     scopes |-> scopes]

\* directive.arguments?.find((arg) => arg.name.value === "scopes")
\* (<<>> for undefined, else the one argument found)
findScopesArgument(arguments) ==
    LET hits == {i \in 1..Len(arguments) : arguments[i].name = "scopes"}
    IN  IF hits = {} THEN <<>>
        ELSE <<arguments[CHOOSE i \in hits : \A j \in hits : i <= j]>>

IsStringValue(val) == val.kind = "StringValue"

\* (a variant that gives up the whole list when an entry is not a string)
requiredScopesAllOrNothing(values) ==
    IF \A i \in 1..Len(values) : IsStringValue(values[i])
    THEN [i \in 1..Len(values) |-> values[i].value]
    ELSE <<>>

\* values.filter((val) => val.kind === "StringValue").map((v) => v.value)
requiredScopes(values) ==
    LET kept == SelectSeq(values, IsStringValue)
    IN  [i \in 1..Len(kept) |-> kept[i].value]

\* The lines one call prints: the field and its type, then the scopes when
\* the scopes argument is a list.
evaluateAuthDirective(fieldName, parentType, directive) ==
    LET scopesArgument == findScopesArgument(directive.arguments)
    IN  IF scopesArgument # <<>> /\ scopesArgument[1].value.kind = "ListValue"
        THEN <<EvalEntry(fieldName, parentType),
               ScopesEntry(requiredScopes(scopesArgument[1].value.values))>>
        ELSE <<EvalEntry(fieldName, parentType)>>

\* (a variant that prints a group of lines only the first time)
consoleLogOnce(output, lines) ==
    IF /\ lines # <<>>
       /\ \E i \in 1..Len(output) :
             /\ i + Len(lines) - 1 <= Len(output)
             /\ SubSeq(output, i, i + Len(lines) - 1) = lines
    THEN output
    ELSE output \o lines

\* console.log: the lines are appended to the output
consoleLog(output, lines) == output \o lines

\* (a variant that takes every directive for the authorization directive)
IsAnyDirective(directive) == TRUE

IsAuthPolicy(directive) == directive.name = "authPolicy"

\* (a variant that walks the directives from the last to the first)
RECURSIVE evaluateDirectivesLastFirst(_, _, _)
evaluateDirectivesLastFirst(fieldName, parentType, directives) ==
    IF directives = <<>> THEN <<>>
    ELSE evaluateDirectivesLastFirst(fieldName, parentType, Tail(directives))
         \o (IF directives[1].name = "authPolicy"
              THEN evaluateAuthDirective(fieldName, parentType, directives[1])
              ELSE <<>>)

\* checkField's loop over fieldAstNode.directives
RECURSIVE evaluateDirectives(_, _, _)
evaluateDirectives(fieldName, parentType, directives) ==
    IF directives = <<>> THEN <<>>
    ELSE (IF IsAuthPolicy(Head(directives))
          THEN evaluateAuthDirective(fieldName, parentType, Head(directives))
          ELSE <<>>)
         \o evaluateDirectives(fieldName, parentType, Tail(directives))

\* ------------------------------------------------------------ fragmentMap

\* (a variant that knows only the fragments declared before the first
\* operation)
buildFragmentMapDeclaredFirst(definitions) ==
    LET ops == {i \in 1..Len(definitions) :
                    definitions[i].kind = "OperationDefinition"}
        idx == {i \in 1..Len(definitions) :
                    /\ definitions[i].kind = "FragmentDefinition"
                    /\ \A o \in ops : i < o}
        names == {definitions[i].name : i \in idx}
        last(n) == CHOOSE i \in idx :
                      /\ definitions[i].name = n
                      /\ \A j \in idx : definitions[j].name = n => j <= i
    IN  [n \in names |-> definitions[last(n)]]

\* for (const definition of document.definitions)
\*   if (definition.kind === "FragmentDefinition") fragmentMap[name] = definition
buildFragmentMap(definitions) ==
    LET idx == {i \in 1..Len(definitions) :
                    definitions[i].kind = "FragmentDefinition"}
        names == {definitions[i].name : i \in idx}
        last(n) == CHOOSE i \in idx :
                      /\ definitions[i].name = n
                      /\ \A j \in idx : definitions[j].name = n => j <= i
    IN  [n \in names |-> definitions[last(n)]]

\* fragmentMap is a plain object ({}): a name it does not hold is looked up
\* on Object.prototype, whose members are truthy and no fragment definitions.
ObjectPrototypeKeys ==
    {"constructor", "toString", "toLocaleString", "valueOf", "hasOwnProperty",
     "isPrototypeOf", "propertyIsEnumerable", "__proto__"}

\* fragmentMap[fragmentName]: "own", "inherited" or "undefined"
lookupFragment(map, fragmentName) ==
    IF fragmentName \in DOMAIN map THEN "own"
    ELSE IF fragmentName \in ObjectPrototypeKeys THEN "inherited"
    ELSE "undefined"

\* --------------------------------------------------------------- call stack

Frame(parentType, selections, caller, fragmentName) ==
    [parentType |-> parentType, selections |-> selections, i |-> 1,
     caller |-> caller, fragmentName |-> fragmentName]

Depth == Len(stack)
Top == stack[Depth]
InLoop == pc = "loop" /\ Depth > 0 /\ Top.i <= Len(Top.selections)
Selection == Top.selections[Top.i]

\* The next iteration of the innermost for-loop.
Advance == [stack EXCEPT ![Depth].i = @ + 1]

\* throw: the call stack unwinds to the caller of traverseAndEvaluateDirectives.
Throw(name) ==
    /\ pc' = "thrown"
    /\ error' = name
    /\ stack' = <<>>

\* A call of checkSelectionSet: a new frame, or RangeError when the call
\* stack is full.
Call(parentType, selectionSet, caller, fragmentName) ==
    IF Depth >= MaxCallDepth
    THEN Throw("RangeError")
    ELSE /\ stack' = Append(stack,
                Frame(parentType, selectionSet.selections, caller, fragmentName))
         /\ UNCHANGED <<pc, error>>

\* (a variant that narrows to any type the schema has, composite or not)
inlineFragmentTypeAnyKnown(s, parentType, inlineFragment) ==
    IF /\ inlineFragment.typeCondition # None
       /\ getType(s, inlineFragment.typeCondition) # None
    THEN getType(s, inlineFragment.typeCondition)
    ELSE parentType

\* checkInlineFragment's fragmentType: the type condition's type when there
\* is a type condition, the schema has the type and it is composite; else the
\* parent type.
inlineFragmentType(s, parentType, inlineFragment) ==
    IF /\ inlineFragment.typeCondition # None
       /\ getType(s, inlineFragment.typeCondition) # None
       /\ isCompositeType(s, getType(s, inlineFragment.typeCondition))
    THEN getType(s, inlineFragment.typeCondition)
    ELSE parentType

\* (a variant that leaves the parent type as it is)
spreadFragmentTypeUnrefined(s, parentType, fragmentDef) == parentType

\* checkFragmentSpread's fragmentType, from the fragment definition's type
\* condition.
spreadFragmentType(s, parentType, fragmentDef) ==
    IF /\ fragmentDef.typeCondition # None
       /\ getType(s, fragmentDef.typeCondition) # None
       /\ isCompositeType(s, getType(s, fragmentDef.typeCondition))
    THEN getType(s, fragmentDef.typeCondition)
    ELSE parentType

\* ----------------------------------------------------------------- actions

Init ==
    /\ \/ schema = "test" /\ document \in Documents
       \/ schema = "demo" /\ document \in DemoDocuments
    /\ fragmentMap = <<>>
    /\ defIdx = 1
    /\ stack = <<>>
    /\ log = <<>>
    /\ pc = "build"
    /\ error = None
    /\ run = "first"
    /\ first = [pc |-> None, error |-> None, log |-> <<>>]

BuildFragmentMap ==
    /\ pc = "build"
    /\ fragmentMap' = buildFragmentMap(document.definitions)
    /\ pc' = "loop"
    /\ UNCHANGED <<schema, document, defIdx, stack, log, error, run, first>>

AtDefinition ==
    pc = "loop" /\ Depth = 0 /\ defIdx <= Len(document.definitions)

\* if (definition.kind === "OperationDefinition") fails: next definition
SkipDefinition ==
    /\ AtDefinition
    /\ document.definitions[defIdx].kind # "OperationDefinition"
    /\ defIdx' = defIdx + 1
    /\ UNCHANGED <<schema, document, fragmentMap, stack, log, pc, error, run, first>>

\* (a variant that checks every operation under the query type)
rootTypeOfQueryOnly(s, operation) == s.queryType

\* checkOperation's switch over operation.operation
rootTypeOf(s, operation) ==
    CASE operation = "query" -> s.queryType
      [] operation = "mutation" -> s.mutationType
      [] operation = "subscription" -> s.subscriptionType
      [] OTHER -> None

checkOperation ==
    /\ AtDefinition
    /\ document.definitions[defIdx].kind = "OperationDefinition"
    /\ LET operation == document.definitions[defIdx]
           rootType == rootTypeOf(theSchema, operation.operation)
       IN  IF rootType = None
           THEN /\ defIdx' = defIdx + 1
                /\ UNCHANGED <<stack, pc, error>>
           ELSE /\ Call(rootType, operation.selectionSet, "checkOperation", None)
                /\ UNCHANGED defIdx
    /\ UNCHANGED <<schema, document, fragmentMap, log, run, first>>

checkField ==
    /\ InLoop
    /\ Selection.kind = "Field"
    /\ LET fieldNode == Selection
           fieldName == fieldNode.name
           parentType == Top.parentType
           fields == getFields(theSchema, parentType)
       IN  IF fieldName \notin DOMAIN fields
           THEN /\ stack' = Advance
                /\ UNCHANGED <<log, pc, error>>
           ELSE LET fieldDef == fields[fieldName]
                    fieldType == getNamedType(fieldDef.type)
                IN  /\ log' = consoleLog(log,
                                evaluateDirectives(fieldName, parentType,
                                                   fieldDef.directives))
                    /\ IF /\ fieldNode.selectionSet.present
                          /\ isCompositeType(theSchema, fieldType)
                       THEN Call(fieldType, fieldNode.selectionSet,
                                 "checkField", None)
                       ELSE /\ stack' = Advance
                            /\ UNCHANGED <<pc, error>>
    /\ UNCHANGED <<schema, document, fragmentMap, defIdx, run, first>>

checkInlineFragment ==
    /\ InLoop
    /\ Selection.kind = "InlineFragment"
    /\ LET inlineFragment == Selection
           fragmentType == inlineFragmentType(theSchema, Top.parentType,
                                              inlineFragment)
       IN  IF inlineFragment.selectionSet.present
           THEN Call(fragmentType, inlineFragment.selectionSet,
                     "checkInlineFragment", None)
           ELSE /\ stack' = Advance
                /\ UNCHANGED <<pc, error>>
    /\ UNCHANGED <<schema, document, fragmentMap, defIdx, log, run, first>>

checkFragmentSpread ==
    /\ InLoop
    /\ Selection.kind = "FragmentSpread"
    /\ LET fragmentName == Selection.name
           found == lookupFragment(fragmentMap, fragmentName)
       IN  CASE found = "undefined" ->
                    /\ stack' = Advance
                    /\ UNCHANGED <<pc, error>>
             [] found = "own" ->
                    LET fragmentDef == fragmentMap[fragmentName]
                        fragmentType == spreadFragmentType(theSchema,
                                            Top.parentType, fragmentDef)
                    IN  Call(fragmentType, fragmentDef.selectionSet,
                             "checkFragmentSpread", fragmentName)
             [] found = "inherited" ->
                    \* fragmentDef.selectionSet is undefined, and
                    \* checkSelectionSet reads its selections
                    IF Depth >= MaxCallDepth THEN Throw("RangeError")
                    ELSE Throw("TypeError")
    /\ UNCHANGED <<schema, document, fragmentMap, defIdx, log, run, first>>

\* The for-loop of a checkSelectionSet call ends; its caller goes on.
returnFromSelectionSet ==
    /\ pc = "loop" /\ Depth > 0
    /\ Top.i > Len(Top.selections)
    /\ IF Depth = 1
       THEN /\ stack' = <<>>
            /\ defIdx' = defIdx + 1
       ELSE /\ stack' = [SubSeq(stack, 1, Depth - 1) EXCEPT ![Depth - 1].i = @ + 1]
            /\ UNCHANGED defIdx
    /\ UNCHANGED <<schema, document, fragmentMap, log, pc, error, run, first>>

\* The loop over document.definitions ends: traverseAndEvaluateDirectives returns.
return ==
    /\ pc = "loop" /\ Depth = 0
    /\ defIdx > Len(document.definitions)
    /\ pc' = "returned"
    /\ UNCHANGED <<schema, document, fragmentMap, defIdx, stack, log, error, run, first>>

\* ---------------------------------------------------- rewritten documents

RECURSIVE countSpreads(_)
countSpreads(nodes) ==
    IF nodes = <<>> THEN 0
    ELSE LET h == Head(nodes)
         IN  (IF h.kind = "FragmentSpread" THEN 1
              ELSE countSpreads(h.selectionSet.selections))
             + countSpreads(Tail(nodes))

\* ... on T { selections of the fragment }, for a spread of a declared fragment
inlineOf(map, spread) ==
    IF spread.name \in DOMAIN map
    THEN InlineFragment(map[spread.name].typeCondition,
                        map[spread.name].selectionSet.selections)
    ELSE spread

\* nodes with its k-th fragment spread (in document order) written inline
RECURSIVE inlineSpread(_, _, _)
inlineSpread(map, nodes, k) ==
    IF nodes = <<>> \/ k < 1 THEN nodes
    ELSE LET h == Head(nodes)
             c == IF h.kind = "FragmentSpread" THEN 1
                  ELSE countSpreads(h.selectionSet.selections)
         IN  IF k > c
             THEN <<h>> \o inlineSpread(map, Tail(nodes), k - c)
             ELSE IF h.kind = "FragmentSpread"
             THEN <<inlineOf(map, h)>> \o Tail(nodes)
             ELSE <<[h EXCEPT !.selectionSet.selections =
                        inlineSpread(map, @, k)]>> \o Tail(nodes)

\* definitions with the i-th one moved to the front
moveToFront(definitions, i) ==
    <<definitions[i]>> \o SubSeq(definitions, 1, i - 1)
                       \o SubSeq(definitions, i + 1, Len(definitions))

Finished == pc \in {"returned", "thrown"}

Restart(doc, how) ==
    /\ document' = doc
    /\ run' = how
    /\ first' = [pc |-> pc, error |-> error, log |-> log]
    /\ fragmentMap' = <<>>
    /\ defIdx' = 1
    /\ stack' = <<>>
    /\ log' = <<>>
    /\ pc' = "build"
    /\ error' = None
    /\ UNCHANGED schema

\* The caller evaluates the document again with one fragment spread replaced
\* by the inline fragment of its target.
EvaluateInlined ==
    /\ Finished /\ run = "first"
    /\ \E k \in 1..countSpreads(document.definitions) :
        LET defs == inlineSpread(fragmentMap, document.definitions, k)
        IN  /\ defs # document.definitions
            /\ Restart([definitions |-> defs], "inlined")

\* The caller evaluates the document again with one fragment definition
\* moved to the front of the document.
EvaluateMoved ==
    /\ Finished /\ run = "first"
    /\ \E i \in 2..Len(document.definitions) :
        /\ document.definitions[i].kind = "FragmentDefinition"
        /\ Restart([definitions |-> moveToFront(document.definitions, i)],
                   "moved")

Next ==
    \/ BuildFragmentMap
    \/ SkipDefinition
    \/ checkOperation
    \/ checkField
    \/ checkInlineFragment
    \/ checkFragmentSpread
    \/ returnFromSelectionSet
    \/ return
    \/ EvaluateInlined
    \/ EvaluateMoved

Spec == Init /\ [][Next]_vars

\* ------------------------------------------------------- the result, read

Record(fieldName, typeName, scopes) ==
    [fieldName |-> fieldName, typeName |-> typeName, scopes |-> scopes]

\* The requirement records the console output spells: one per "requires
\* authPolicy eval" line, with the scopes of the "required request scopes"
\* line that follows it, or none when no such line follows.
RECURSIVE requirements(_)
requirements(l) ==
    IF l = <<>> THEN <<>>
    ELSE IF Head(l).kind # "eval" THEN requirements(Tail(l))
    ELSE IF Len(l) >= 2 /\ l[2].kind = "scopes"
    THEN <<Record(l[1].fieldName, l[1].typeName, l[2].scopes)>>
         \o requirements(Tail(Tail(l)))
    ELSE <<Record(l[1].fieldName, l[1].typeName, <<>>)>>
         \o requirements(Tail(l))

Outcome == [pc |-> pc, error |-> error, log |-> log]

\* The fragment names of the active call path, outermost first.
activeFragments ==
    SelectSeq([i \in 1..Depth |-> stack[i].fragmentName],
              LAMBDA n : n # None)

\* ----------------------------------------------------------------- claims

\* C1 (as claimed): a document whose fragments spread themselves, directly or
\* through each other, is evaluated to the end: no fragment is expanded while
\* it is already being expanded on the active call path, and the evaluation
\* does not end by exhausting the call stack.
CycleSafety ==
    /\ \A i, j \in 1..Len(activeFragments) :
          i # j => activeFragments[i] # activeFragments[j]
    /\ error # "RangeError"

\* C2: the demo schema and the document ExampleQuery { publicData secretData
\* { nestedOne nestedTwo { finalString } } } ExampleMutation { doSomething
\* { success nestedValue } } give exactly these four records, in this order.
ConcreteScenario ==
    (schema = "demo" /\ document = ExampleDocument /\ Finished)
    => /\ pc = "returned"
       /\ requirements(log) =
            <<Record("secretData", "Query", <<"read.secretData">>),
              Record("nestedTwo", "SecretData", <<"read.nestedTwo">>),
              Record("doSomething", "Mutation", <<"manage.updateSomething">>),
              Record("nestedValue", "DoSomethingResult",
                     <<"read.nestedValueResult">>)>>

ConcreteScenarioWitness ==
    /\ schema = "demo" /\ document = ExampleDocument
    /\ pc = "returned"
    /\ Len(log) = 8

\* C3: the document with one fragment spread replaced by an inline fragment
\* carrying the target fragment's type condition and selection set evaluates
\* to the same outcome, record for record, as the document itself.
SpreadEquivalence ==
    (run = "inlined" /\ Finished)
    => /\ pc = first.pc
       /\ error = first.error
       /\ requirements(log) = requirements(first.log)

\* The only spread of the operation (...S, under Query) was written inline
\* and its nestedTwo record came out again.
SpreadEquivalenceWitness ==
    /\ run = "inlined" /\ pc = "returned"
    /\ document.definitions[1].selectionSet.selections =
          <<InlineFragment("SecretData",
                <<FieldWith("nestedTwo", <<Field("finalString")>>)>>)>>
    /\ requirements(log) =
          <<Record("nestedTwo", "SecretData", <<"read.nestedTwo">>)>>

\* --- the traversal the claims speak of, written out for comparison -------

refComposite(s, t) ==
    t \in DOMAIN s.types /\ s.types[t].kind \in {"object", "interface", "union"}

refHasField(s, t, f) ==
    /\ t \in DOMAIN s.types
    /\ s.types[t].kind \in {"object", "interface"}
    /\ f \in DOMAIN s.types[t].fields

RECURSIVE refNamed(_)
refNamed(type) == IF type.kind = "Named" THEN type.name ELSE refNamed(type.ofType)

refNarrow(s, parentType, typeCondition) ==
    IF typeCondition # None /\ refComposite(s, typeCondition)
    THEN typeCondition ELSE parentType

refAuthDirectives(fieldDef) ==
    SelectSeq(fieldDef.directives, LAMBDA d : d.name = "authPolicy")

\* the string entries of a list of values, in their order
RECURSIVE refStrings(_)
refStrings(values) ==
    IF values = <<>> THEN <<>>
    ELSE (IF Head(values).kind = "StringValue" THEN <<Head(values).value>>
          ELSE <<>>) \o refStrings(Tail(values))

\* the scopes one directive contributes
refScopes(directive) ==
    LET named == SelectSeq(directive.arguments, LAMBDA a : a.name = "scopes")
    IN  IF named # <<>> /\ named[1].value.kind = "ListValue"
        THEN refStrings(named[1].value.values)
        ELSE <<>>

refDeclared(doc, name) ==
    \E i \in 1..Len(doc.definitions) :
        /\ doc.definitions[i].kind = "FragmentDefinition"
        /\ doc.definitions[i].name = name

refFragment(doc, name) ==
    LET idx == {i \in 1..Len(doc.definitions) :
                    /\ doc.definitions[i].kind = "FragmentDefinition"
                    /\ doc.definitions[i].name = name}
    IN  doc.definitions[CHOOSE i \in idx : \A j \in idx : j <= i]

\* The records of a selection set in depth-first, left-to-right order: a
\* field's own records, then those of its nested selection set, then those of
\* the selections that follow it.
RECURSIVE refRecords(_, _, _, _, _)
refRecords(s, doc, parentType, sels, fuel) ==
    IF sels = <<>> \/ fuel = 0 THEN <<>>
    ELSE LET h == Head(sels)
             here ==
               CASE h.kind = "Field" ->
                      IF ~refHasField(s, parentType, h.name) THEN <<>>
                      ELSE LET def == s.types[parentType].fields[h.name]
                               ds == refAuthDirectives(def)
                           IN  [i \in 1..Len(ds) |->
                                  Record(h.name, parentType, refScopes(ds[i]))]
                               \o (IF /\ h.selectionSet.present
                                      /\ refComposite(s, refNamed(def.type))
                                   THEN refRecords(s, doc, refNamed(def.type),
                                          h.selectionSet.selections, fuel - 1)
                                   ELSE <<>>)
                 [] h.kind = "InlineFragment" ->
                      refRecords(s, doc,
                          refNarrow(s, parentType, h.typeCondition),
                          h.selectionSet.selections, fuel - 1)
                 [] h.kind = "FragmentSpread" ->
                      IF ~refDeclared(doc, h.name) THEN <<>>
                      ELSE refRecords(s, doc,
                              refNarrow(s, parentType,
                                        refFragment(doc, h.name).typeCondition),
                              refFragment(doc, h.name).selectionSet.selections,
                              fuel - 1)
         IN  here \o refRecords(s, doc, parentType, Tail(sels), fuel)

refRoot(s, operation) ==
    IF operation = "query" THEN s.queryType
    ELSE IF operation = "mutation" THEN s.mutationType
    ELSE s.subscriptionType

\* The records of the operations, in definition order.
RECURSIVE refDocument(_, _, _)
refDocument(s, doc, defs) ==
    IF defs = <<>> THEN <<>>
    ELSE (IF /\ Head(defs).kind = "OperationDefinition"
             /\ refRoot(s, Head(defs).operation) # None
          THEN refRecords(s, doc, refRoot(s, Head(defs).operation),
                          Head(defs).selectionSet.selections, MaxCallDepth)
          ELSE <<>>)
         \o refDocument(s, doc, Tail(defs))

\* C4: the records come out in the document's depth-first, left-to-right
\* order (operations in definition order, a field's record before those of its
\* nested selections, siblings in selection order), and a document with a
\* fragment definition moved to another place evaluates to the same outcome.
OrderPreservation ==
    /\ pc = "returned"
       => requirements(log) = refDocument(theSchema, document, document.definitions)
    /\ (run = "moved" /\ Finished)
       => /\ pc = first.pc
          /\ error = first.error
          /\ requirements(log) = requirements(first.log)

\* Fragment S now stands before the operation that spreads it, and the three
\* records of { secretData { nestedOne nestedTwo { finalString } } ...S } came
\* out as before.
OrderPreservationWitness ==
    /\ run = "moved" /\ pc = "returned"
    /\ document.definitions[1] = FragS
    /\ document.definitions[2].selectionSet.selections =
          <<SelSecretData, FragmentSpread("S")>>
    /\ requirements(log) =
          <<Record("secretData", "Query", <<"read.secretData">>),
            Record("nestedTwo", "SecretData", <<"read.nestedTwo">>),
            Record("nestedTwo", "SecretData", <<"read.nestedTwo">>)>>

\* How often the traversal of a selection set reaches a selection of field f
\* on type t, every path through fragments counted.
RECURSIVE refOccurrences(_, _, _, _, _, _, _)
refOccurrences(s, doc, parentType, sels, fuel, t, f) ==
    IF sels = <<>> \/ fuel = 0 THEN 0
    ELSE LET h == Head(sels)
             below(type, nested) ==
                 refOccurrences(s, doc, type, nested, fuel - 1, t, f)
             here ==
               CASE h.kind = "Field" ->
                      IF ~refHasField(s, parentType, h.name) THEN 0
                      ELSE LET type == refNamed(s.types[parentType].fields[h.name].type)
                           IN  (IF parentType = t /\ h.name = f THEN 1 ELSE 0)
                               + (IF h.selectionSet.present /\ refComposite(s, type)
                                  THEN below(type, h.selectionSet.selections)
                                  ELSE 0)
                 [] h.kind = "InlineFragment" ->
                      below(refNarrow(s, parentType, h.typeCondition),
                            h.selectionSet.selections)
                 [] h.kind = "FragmentSpread" ->
                      IF ~refDeclared(doc, h.name) THEN 0
                      ELSE below(refNarrow(s, parentType,
                                     refFragment(doc, h.name).typeCondition),
                                 refFragment(doc, h.name).selectionSet.selections)
         IN  here + refOccurrences(s, doc, parentType, Tail(sels), fuel, t, f)

RECURSIVE refOccurrencesIn(_, _, _, _, _)
refOccurrencesIn(s, doc, defs, t, f) ==
    IF defs = <<>> THEN 0
    ELSE (IF /\ Head(defs).kind = "OperationDefinition"
             /\ refRoot(s, Head(defs).operation) # None
          THEN refOccurrences(s, doc, refRoot(s, Head(defs).operation),
                   Head(defs).selectionSet.selections, MaxCallDepth, t, f)
          ELSE 0)
         + refOccurrencesIn(s, doc, Tail(defs), t, f)

\* The records of field f on type t among the records r.
recordsOf(r, t, f) ==
    Cardinality({i \in 1..Len(r) : r[i].typeName = t /\ r[i].fieldName = f})

AtField == InLoop /\ Selection.kind = "Field"
AtInlineFragment == InLoop /\ Selection.kind = "InlineFragment"
AtFragmentSpread == InLoop /\ Selection.kind = "FragmentSpread"

\* The field selection at hand names a field of the parent type.
resolves == refHasField(theSchema, Top.parentType, Selection.name)
fieldDefAt == theSchema.types[Top.parentType].fields[Selection.name]

\* What the step prints.
printed == SubSeq(log', Len(log) + 1, Len(log'))

\* The step goes on with the next selection of the same selection set.
goesOn == pc' = "loop" /\ error' = error /\ stack' = Advance

\* The step enters a selection set under parentType.
enters(parentType, selectionSet) ==
    /\ pc' = "loop" /\ error' = error
    /\ Len(stack') = Depth + 1
    /\ stack'[Depth + 1].parentType = parentType
    /\ stack'[Depth + 1].selections = selectionSet.selections
    /\ stack'[Depth + 1].i = 1

\* C5: a selection of a field whose definition has no authPolicy directive
\* prints nothing, at any depth, and its nested selection set is still
\* entered when the field's type is composite; a document that selects
\* publicData alone ends with no record.
NoRecordWithoutDirective ==
    /\ [][(AtField /\ resolves /\ refAuthDirectives(fieldDefAt) = <<>>)
          => /\ log' = log
             /\ (/\ Selection.selectionSet.present
                 /\ refComposite(theSchema, refNamed(fieldDefAt.type))
                 /\ Depth < MaxCallDepth)
                => enters(refNamed(fieldDefAt.type), Selection.selectionSet)]_vars
    /\ [](( /\ pc = "returned"
            /\ document = [definitions |->
                 <<OperationDefinition("query", "P", <<Field("publicData")>>)>>])
          => requirements(log) = <<>>)

\* tagged (a field with a directive of another name, of type SecretData) has
\* printed nothing and its selection set is being checked at depth 2.
NoRecordWithoutDirectiveWitness ==
    /\ pc = "loop" /\ Depth = 2
    /\ stack[1].selections[stack[1].i].name = "tagged"
    /\ Top.caller = "checkField" /\ Top.parentType = "SecretData"
    /\ log = <<>>

malformed(directive) ==
    LET named == SelectSeq(directive.arguments, LAMBDA a : a.name = "scopes")
    IN  \/ named = <<>>
        \/ named[1].value.kind # "ListValue"
        \/ \E i \in 1..Len(named[1].value.values) :
              named[1].value.values[i].kind # "StringValue"

\* C6 (as claimed): a field whose authPolicy directive has a scopes argument
\* that is not a list, or a list with an entry that is not a string, yields
\* no scopes, and the evaluation goes on.
MalformedYieldsNoScopes ==
    [][(/\ AtField /\ resolves
        /\ refAuthDirectives(fieldDefAt) # <<>>
        /\ \A i \in 1..Len(refAuthDirectives(fieldDefAt)) :
              malformed(refAuthDirectives(fieldDefAt)[i]))
       => /\ \A i \in 1..Len(printed) : printed[i].scopes = <<>>
          /\ pc' = "loop"]_vars

\* C6 (amended): where the scopes argument is missing or not a list the
\* directive yields no scopes; where it is a list with entries that are not
\* strings, those entries are dropped and the string entries are kept in
\* their order; in both cases the evaluation goes on.
MalformedScopes ==
    [][(/\ AtField /\ resolves
        /\ \E i \in 1..Len(refAuthDirectives(fieldDefAt)) :
              malformed(refAuthDirectives(fieldDefAt)[i]))
       => LET ds == refAuthDirectives(fieldDefAt)
              named(d) == SelectSeq(d.arguments, LAMBDA a : a.name = "scopes")
              isList(d) == named(d) # <<>> /\ named(d)[1].value.kind = "ListValue"
          IN  /\ Len(requirements(printed)) = Len(ds)
              /\ \A i \in 1..Len(ds) :
                    requirements(printed)[i].scopes =
                       IF isList(ds[i])
                       THEN refStrings(named(ds[i])[1].value.values)
                       ELSE <<>>
              /\ pc' = "loop"]_vars

\* bad (scopes: "b1") printed no scopes, and mixed (scopes: ["m1", 2, "m3"])
\* printed m1 and m3.
MalformedScopesWitness ==
    \E i \in 1..Len(log) :
        /\ i + 2 <= Len(log)
        /\ log[i] = EvalEntry("bad", "Query")
        /\ log[i + 1] = EvalEntry("mixed", "Query")
        /\ log[i + 2] = ScopesEntry(<<"m1", "m3">>)

RECURSIVE scopesOf(_)
scopesOf(lines) ==
    IF lines = <<>> THEN <<>>
    ELSE Head(lines).scopes \o scopesOf(Tail(lines))

RECURSIVE mergedScopes(_)
mergedScopes(directives) ==
    IF directives = <<>> THEN <<>>
    ELSE refScopes(Head(directives)) \o mergedScopes(Tail(directives))

SoftSkip ==
    [][/\ (/\ AtDefinition
           /\ document.definitions[defIdx].kind = "OperationDefinition"
           /\ refRoot(theSchema, document.definitions[defIdx].operation) = None)
          => /\ log' = log /\ pc' = "loop" /\ error' = error
             /\ stack' = <<>> /\ defIdx' = defIdx + 1
       /\ (AtFragmentSpread /\ ~refDeclared(document, Selection.name))
          => log' = log /\ goesOn
       /\ (AtField /\ ~resolves)
          => log' = log /\ goesOn]_vars

\* The soft skips of C8, the undeclared fragment names that Object.prototype
\* holds left aside: these hold.
SoftSkipOwnNames ==
    [][/\ (/\ AtDefinition
           /\ document.definitions[defIdx].kind = "OperationDefinition"
           /\ refRoot(theSchema, document.definitions[defIdx].operation) = None)
          => /\ log' = log /\ pc' = "loop" /\ error' = error
             /\ stack' = <<>> /\ defIdx' = defIdx + 1
       /\ (/\ AtFragmentSpread /\ ~refDeclared(document, Selection.name)
           /\ Selection.name \notin ObjectPrototypeKeys)
          => log' = log /\ goesOn
       /\ (AtField /\ ~resolves)
          => log' = log /\ goesOn]_vars

\* C10: the selection set of an inline fragment, or of the fragment a spread
\* names, is checked under the type its type condition names when the schema
\* has that type and it is an object, an interface or a union, whatever the
\* parent type is; under the parent type when there is no type condition or
\* it names no such type; and the records of the fields carry the name of the
\* type they were checked under.
TypeConditionNarrowing ==
    [][/\ (AtInlineFragment /\ Selection.selectionSet.present
           /\ Depth < MaxCallDepth)
          => enters(refNarrow(theSchema, Top.parentType, Selection.typeCondition),
                    Selection.selectionSet)
       /\ (AtFragmentSpread /\ refDeclared(document, Selection.name)
           /\ Depth < MaxCallDepth)
          => enters(refNarrow(theSchema, Top.parentType,
                        refFragment(document, Selection.name).typeCondition),
                    refFragment(document, Selection.name).selectionSet)
       /\ AtField
          => \A i \in 1..Len(printed) :
                printed[i].kind = "eval" => printed[i].typeName = Top.parentType]_vars

\* Under node (of the interface Node), ... on User { id name } was checked
\* under User: name printed as a field of User, id (undirected there) not.
TypeConditionNarrowingWitness ==
    /\ pc = "loop" /\ Depth = 3
    /\ stack[2].parentType = "Node"
    /\ Top.caller = "checkInlineFragment" /\ Top.parentType = "User"
    /\ Top.i > Len(Top.selections)
    /\ log = <<EvalEntry("id", "Node"), ScopesEntry(<<"read.node">>),
               EvalEntry("name", "User"), ScopesEntry(<<"read.user">>)>>

====
